---- MODULE Spec2Model ----
(***************************************************************************)
(* State-machine model of getRecipe.py: the UID cache (local JSON file,    *)
(* hydrated from Firestore when empty), the Spoonacular fetch and the      *)
(* per-record loop of store_recipes.  The process is restarted to model    *)
(* successive runs of the batch job over the same cache file and the same  *)
(* document store, and may be killed between any two of its effects.       *)
(***************************************************************************)
EXTENDS Integers, Sequences, FiniteSets, TLC

\* ---------------------------------------------------------------- bounds
MaxId    == 2      \* recipe identifiers are 1..MaxId
MaxBatch == 2      \* longest fetched batch
MaxRuns  == 2      \* number of successive runs of the job
MaxText  == 4      \* longest summary, in pieces

Ids   == 1..MaxId
NoId  == 0         \* a record without an 'id' key

\* str(recipe_id): the decimal string used as cache key and document key
Str(i) == ToString(i)

Keys == {Str(i) : i \in Ids}

\* A fetched record, reduced to what store_recipes depends on:
\*   id    - recipe['id'], or NoId when the key is missing
\*   title - whether recipe['title'] exists
\*   ok    - whether every other access / derivation of lines 108-150
\*           succeeds (extendedIngredients, instructions, summary, int());
\*           it decides nothing for a record without id or title,
\*           whose processing raises KeyError whatever the rest holds
Recipe ==
  {r \in [id : Ids \cup {NoId}, title : BOOLEAN, ok : BOOLEAN] :
     (r.id = NoId \/ ~r.title) => r.ok}

RECURSIVE SeqsUpTo(_, _)
SeqsUpTo(S, n) ==
  IF n = 0 THEN {<<>>}
  ELSE LET shorter == SeqsUpTo(S, n - 1)
       IN  shorter \cup {Append(s, x) : s \in {t \in shorter : Len(t) = n - 1}, x \in S}

Batches == SeqsUpTo(Recipe, MaxBatch)

\* ------------------------------------------------------------ cache file
\* The cache file: missing, zero bytes, text that is not valid JSON, or a
\* JSON object given as its set of <<key, value>> members.
NoFile        == [kind |-> "missing",   pairs |-> {}]
EmptyFile     == [kind |-> "empty",     pairs |-> {}]
MalformedFile == [kind |-> "malformed", pairs |-> {}]

EmptyDict == [k \in {} |-> TRUE]

\* d = {k: True}: the assignment replaces the dict instead of extending it
dict_set_fresh(d, k) == [x \in {k} |-> TRUE]

\* d[k] = True
dict_set(d, k) == [x \in DOMAIN d \cup {k} |-> IF x = k THEN TRUE ELSE d[x]]

\* json.dump that writes one member only and stops
json_dump_first(cache) ==
  [kind |-> "object",
   pairs |-> IF DOMAIN cache = {} THEN {}
             ELSE LET k == CHOOSE x \in DOMAIN cache : TRUE IN {<<k, cache[k]>>}]

\* json.dump(cache, f): the object's members, one per key of the dict
json_dump(cache) ==
  [kind |-> "object", pairs |-> {<<k, cache[k]>> : k \in DOMAIN cache}]

\* json.load(f) on a JSON object
json_load(f) ==
  LET ks == {p[1] : p \in f.pairs}
  IN  [k \in ks |-> (CHOOSE p \in f.pairs : p[1] = k)[2]]

\* load_uid_cache without the except clause of lines 28-30
load_uid_cache_strict(f) ==
  IF f.kind = "missing" THEN [raised |-> FALSE, val |-> EmptyDict]
  ELSE IF f.kind \in {"empty", "malformed"}
       THEN [raised |-> TRUE, val |-> EmptyDict]
       ELSE [raised |-> FALSE, val |-> json_load(f)]

\* load_uid_cache(): raised tells whether an exception leaves the function
load_uid_cache(f) ==
  IF f.kind = "missing" THEN [raised |-> FALSE, val |-> EmptyDict]
  ELSE IF f.kind \in {"empty", "malformed"}
       THEN [raised |-> FALSE, val |-> EmptyDict]    \* JSONDecodeError caught
       ELSE [raised |-> FALSE, val |-> json_load(f)]

\* ------------------------------------------------------------------ state
VARIABLES
  pc,         \* position of the process
  run,        \* number of the current run
  file,       \* content of UID_CACHE_FILE
  docs,       \* document ids of the Firestore collection 'recipes'
  uid_cache,  \* the global dict uid_cache
  recipes,    \* the list returned by fetch_recipes
  pos,        \* index of the record the for loop is at (1-based)
  out,        \* what the run has printed
  calls,      \* the run's calls to the store and the API and its cache
              \* adds, in order: [op, key (or the outcome of the GET), at];
              \* a save_uid_cache that raised is logged as save_raised
  cache0,     \* uid_cache as it was when store_recipes was entered
  everAdded,  \* keys whose cache add (dict and file) completed, over all runs
  frame,      \* a call of one of the field extractors: [fn, arg, ret]
  procs       \* two jobs started side by side on one cache file

\* the state that the single job of `Spec` never touches
aux == <<frame, procs>>

vars == <<pc, run, file, docs, uid_cache, recipes, pos, out, calls, cache0, everAdded,
          frame, procs>>

\* the extractors are not called, no second job runs
NoFrame == [fn |-> "none", arg |-> <<>>, called |-> FALSE, ret |-> <<>>]
NoProcs == <<>>

Running  == {"start", "hydrate", "init_save", "init_dump", "fetch", "main_if",
             "record", "cache_add", "rec_save", "rec_dump"}
Stopped  == {"done", "abort_init", "abort_fetch", "abort_store", "crashed"}
\* positions at which initialize_uid_cache has returned
PostInit == {"fetch", "main_if", "record", "cache_add", "rec_save", "rec_dump", "done",
             "abort_fetch", "abort_store"}
InStore  == {"record", "cache_add", "rec_save", "rec_dump"}

\* uid_cache.get(recipe_id, False): the int is never equal to a str key
recipe_exists_intkey(id) == FALSE

\* d.get(k, False)
dict_get(d, k) == IF k \in DOMAIN d THEN d[k] ELSE FALSE

\* recipe_exists(recipe_id): uid_cache.get(str(recipe_id), False)
recipe_exists(id) == dict_get(uid_cache, Str(id))

Init ==
  /\ pc = "start"
  /\ run = 1
  /\ file = NoFile
  /\ docs \in SUBSET Keys
  /\ uid_cache = EmptyDict
  /\ recipes = <<>>
  /\ pos = 0
  /\ out = <<>>
  /\ calls = <<>>
  /\ cache0 = EmptyDict
  /\ everAdded = {}
  /\ frame = NoFrame
  /\ procs = NoProcs

\* ------------------------------------------------- initialize_uid_cache
\* initialize_uid_cache hydrating only when the file does not exist
InitLoad_missing_only ==
  /\ pc = "start"
  /\ LET r == load_uid_cache(file)
     IN  IF r.raised
         THEN /\ pc' = "abort_init"
              /\ UNCHANGED uid_cache
         ELSE /\ uid_cache' = r.val
              /\ pc' = IF file.kind = "missing" THEN "hydrate" ELSE "fetch"
  /\ UNCHANGED <<run, file, docs, recipes, pos, out, calls, cache0, everAdded, aux>>

\* line 41: uid_cache = load_uid_cache(); line 42: if not uid_cache
InitLoad ==
  /\ pc = "start"
  /\ LET r == load_uid_cache(file)
     IN  IF r.raised
         THEN /\ pc' = "abort_init"
              /\ UNCHANGED uid_cache
         ELSE /\ uid_cache' = r.val
              /\ pc' = IF DOMAIN r.val = {} THEN "hydrate" ELSE "fetch"
  /\ UNCHANGED <<run, file, docs, recipes, pos, out, calls, cache0, everAdded, aux>>

\* lines 46-47: for doc in docs: uid_cache[doc.id] = True
RECURSIVE hydrate(_, _)
hydrate(d, ids) ==
  IF ids = {} THEN d
  ELSE LET k == CHOOSE x \in ids : TRUE
       IN  hydrate(dict_set(d, k), ids \ {k})

\* lines 44-47: list the collection and mark every document id
HydrateOk ==
  /\ pc = "hydrate"
  /\ uid_cache' = hydrate(uid_cache, docs)
  /\ calls' = Append(calls, [op |-> "list", key |-> "", at |-> 0])
  /\ pc' = "init_save"
  /\ UNCHANGED <<run, file, docs, recipes, pos, out, cache0, everAdded, aux>>

\* the listing raises (store unreachable): the exception ends the run
HydrateFail ==
  /\ pc = "hydrate"
  /\ calls' = Append(calls, [op |-> "list", key |-> "", at |-> 0])
  /\ pc' = "abort_init"
  /\ UNCHANGED <<run, file, docs, uid_cache, recipes, pos, out, cache0, everAdded, aux>>

\* line 48 / line 35: open(UID_CACHE_FILE, 'w') truncates the file
InitSaveOpen ==
  /\ pc = "init_save"
  /\ \/ /\ file' = EmptyFile
        /\ pc' = "init_dump"
     \/ /\ pc' = "abort_init"          \* open raises OSError
        /\ UNCHANGED file
  /\ UNCHANGED <<run, docs, uid_cache, recipes, pos, out, calls, cache0, everAdded, aux>>

\* line 36: json.dump and the close that flushes it
InitSaveDump ==
  /\ pc = "init_dump"
  /\ \/ /\ file' = json_dump(uid_cache)
        /\ pc' = "fetch"
     \/ /\ file' \in {EmptyFile, MalformedFile}   \* the write raises OSError
        /\ pc' = "abort_init"
  /\ UNCHANGED <<run, docs, uid_cache, recipes, pos, out, calls, cache0, everAdded, aux>>

\* ---------------------------------------------------------- fetch_recipes
\* outcome of requests.get / raise_for_status / data['recipes']
FetchOutcomes == {"ok", "network_error", "http_error", "bad_shape"}

\* fetch_recipes catching only connection errors, not HTTPError
fetch_recipes_uncaught(outcome, batch) ==
  IF outcome = "network_error"
    THEN [raised |-> FALSE, val |-> <<>>, printed |-> <<"fetch_error">>]
  ELSE IF outcome \in {"bad_shape", "http_error"}
    THEN [raised |-> TRUE, val |-> <<>>, printed |-> <<>>]
  ELSE [raised |-> FALSE, val |-> batch, printed |-> <<>>]

\* fetch_recipes with `except Exception`: a KeyError gives the empty list too
fetch_recipes_catchall(outcome, batch) ==
  IF outcome \in {"network_error", "http_error", "bad_shape"}
    THEN [raised |-> FALSE, val |-> <<>>, printed |-> <<"fetch_error">>]
  ELSE [raised |-> FALSE, val |-> batch, printed |-> <<>>]

fetch_recipes(outcome, batch) ==
  IF outcome \in {"network_error", "http_error"}
    THEN [raised |-> FALSE, val |-> <<>>, printed |-> <<"fetch_error">>]
  ELSE IF outcome = "bad_shape"
    THEN [raised |-> TRUE, val |-> <<>>, printed |-> <<>>]      \* KeyError
  ELSE [raised |-> FALSE, val |-> batch, printed |-> <<>>]

\* line 162: recipes = fetch_recipes()
Fetch ==
  /\ pc = "fetch"
  /\ \E outcome \in FetchOutcomes, batch \in Batches :
       /\ (outcome # "ok") => batch = <<>>
       /\ LET r == fetch_recipes(outcome, batch)
          IN  /\ recipes' = r.val
              /\ out' = out \o r.printed
              /\ pc' = IF r.raised THEN "abort_fetch" ELSE "main_if"
       /\ calls' = Append(calls, [op |-> "get", key |-> outcome, at |-> 0])
  /\ UNCHANGED <<run, file, docs, uid_cache, pos, cache0, everAdded, aux>>

\* lines 163-167: if recipes: store_recipes(recipes) else print
MainIf ==
  /\ pc = "main_if"
  /\ IF recipes # <<>>
     THEN /\ pc' = "record"
          /\ pos' = 1
          /\ cache0' = uid_cache
          /\ UNCHANGED out
     ELSE /\ pc' = "done"
          /\ out' = Append(out, "no_recipes")
          /\ UNCHANGED <<pos, cache0>>
  /\ UNCHANGED <<run, file, docs, uid_cache, recipes, calls, everAdded, aux>>

\* ---------------------------------------------------------- store_recipes
\* lines 157-158: the except clause prints recipe['title'] and the loop goes
\* on; without a title the print itself raises KeyError out of the function
Handler(r) ==
  IF r.title
  THEN /\ out' = Append(out, "error")
       /\ pos' = pos + 1
       /\ pc' = "record"
  ELSE /\ pc' = "abort_store"
       /\ UNCHANGED <<out, pos>>

\* store_recipes going on to the cache update although doc_ref.set raised
RecordNoWrite_swallow ==
  /\ pc = "record"
  /\ pos <= Len(recipes)
  /\ LET r == recipes[pos]
     IN  \/ /\ r.id = NoId                       \* line 106 raises KeyError
            /\ Handler(r)
         \/ /\ r.id # NoId
            /\ recipe_exists(r.id)               \* line 156
            /\ IF r.title
               THEN /\ out' = Append(out, "duplicate")
                    /\ pos' = pos + 1
                    /\ pc' = "record"
               ELSE Handler(r)
         \/ /\ r.id # NoId
            /\ ~recipe_exists(r.id)
            /\ (~r.ok \/ ~r.title)               \* lines 108-150 raise
            /\ Handler(r)
         \/ /\ r.id # NoId
            /\ ~recipe_exists(r.id)
            /\ r.ok /\ r.title
            /\ pc' = "cache_add"                 \* doc_ref.set raises
            /\ UNCHANGED <<out, pos>>
  /\ UNCHANGED <<run, file, docs, uid_cache, recipes, calls, cache0, everAdded, aux>>

\* store_recipes with the cache update placed before doc_ref.set: a write
\* that raises leaves the identifier in the dict
RecordNoWrite_early_add ==
  /\ pc = "record"
  /\ pos <= Len(recipes)
  /\ LET r == recipes[pos]
     IN  \/ /\ r.id = NoId
            /\ Handler(r)
            /\ UNCHANGED uid_cache
         \/ /\ r.id # NoId
            /\ recipe_exists(r.id)
            /\ IF r.title
               THEN /\ out' = Append(out, "duplicate")
                    /\ pos' = pos + 1
                    /\ pc' = "record"
               ELSE Handler(r)
            /\ UNCHANGED uid_cache
         \/ /\ r.id # NoId
            /\ ~recipe_exists(r.id)
            /\ (~r.ok \/ ~r.title)
            /\ Handler(r)
            /\ UNCHANGED uid_cache
         \/ /\ r.id # NoId
            /\ ~recipe_exists(r.id)
            /\ r.ok /\ r.title
            /\ uid_cache' = dict_set(uid_cache, Str(r.id))
            /\ Handler(r)
  /\ UNCHANGED <<run, file, docs, recipes, calls, cache0, everAdded, aux>>

\* lines 105-151 for the record at pos, when nothing is written
RecordNoWrite ==
  /\ pc = "record"
  /\ pos <= Len(recipes)
  /\ LET r == recipes[pos]
     IN  \/ /\ r.id = NoId                       \* line 106 raises KeyError
            /\ Handler(r)
         \/ /\ r.id # NoId
            /\ recipe_exists(r.id)               \* line 156
            /\ IF r.title
               THEN /\ out' = Append(out, "duplicate")
                    /\ pos' = pos + 1
                    /\ pc' = "record"
               ELSE Handler(r)
         \/ /\ r.id # NoId
            /\ ~recipe_exists(r.id)
            /\ (~r.ok \/ ~r.title)               \* lines 108-150 raise
            /\ Handler(r)
         \/ /\ r.id # NoId
            /\ ~recipe_exists(r.id)
            /\ r.ok /\ r.title
            /\ Handler(r)                        \* doc_ref.set raises
  /\ UNCHANGED <<run, file, docs, uid_cache, recipes, calls, cache0, everAdded, aux>>

\* lines 131-151: doc_ref.set succeeds, "Stored recipe" is printed
RecordWrite ==
  /\ pc = "record"
  /\ pos <= Len(recipes)
  /\ LET r == recipes[pos]
     IN  /\ r.id # NoId
         /\ ~recipe_exists(r.id)
         /\ r.ok /\ r.title
         /\ docs' = docs \cup {Str(r.id)}
         /\ calls' = Append(calls, [op |-> "set", key |-> Str(r.id), at |-> pos])
         /\ out' = Append(out, "stored")
         /\ pc' = "cache_add"
  /\ UNCHANGED <<run, file, uid_cache, recipes, pos, cache0, everAdded, aux>>

\* line 153: uid_cache[str(recipe_id)] = True
CacheAdd ==
  /\ pc = "cache_add"
  /\ LET k == Str(recipes[pos].id)
     IN  /\ uid_cache' = dict_set(uid_cache, k)
         /\ calls' = Append(calls, [op |-> "add", key |-> k, at |-> pos])
  /\ pc' = "rec_save"
  /\ UNCHANGED <<run, file, docs, recipes, pos, out, cache0, everAdded, aux>>

\* line 154 / line 35: open(UID_CACHE_FILE, 'w') truncates the file
RecSaveOpen ==
  /\ pc = "rec_save"
  /\ \/ /\ file' = EmptyFile
        /\ pc' = "rec_dump"
        /\ UNCHANGED <<out, pos>>
        /\ UNCHANGED calls
     \/ /\ UNCHANGED file                \* open raises OSError, caught
        /\ calls' = Append(calls, [op |-> "save_raised", key |-> Str(recipes[pos].id), at |-> pos])
        /\ Handler(recipes[pos])
  /\ UNCHANGED <<run, docs, uid_cache, recipes, cache0, everAdded, aux>>

\* line 36: json.dump and the close that flushes it
RecSaveDump ==
  /\ pc = "rec_dump"
  /\ \/ /\ file' = json_dump(uid_cache)
        /\ everAdded' = everAdded \cup {Str(recipes[pos].id)}
        /\ pos' = pos + 1
        /\ pc' = "record"
        /\ UNCHANGED <<out, calls>>
     \/ /\ file' \in {EmptyFile, MalformedFile}   \* the write raises, caught
        /\ UNCHANGED everAdded
        /\ calls' = Append(calls, [op |-> "save_raised", key |-> Str(recipes[pos].id), at |-> pos])
        /\ Handler(recipes[pos])
  /\ UNCHANGED <<run, docs, uid_cache, recipes, cache0, aux>>

\* line 165: the loop is over
Finish ==
  /\ pc = "record"
  /\ pos > Len(recipes)
  /\ out' = Append(out, "success")
  /\ pc' = "done"
  /\ UNCHANGED <<run, file, docs, uid_cache, recipes, pos, calls, cache0, everAdded, aux>>

\* ------------------------------------------------------- process lifetime
\* The process is killed.  Killed between the truncating open and the close,
\* the file holds nothing or an unflushed prefix of the JSON text.
Crash ==
  /\ pc \in Running
  /\ pc' = "crashed"
  /\ IF pc \in {"init_dump", "rec_dump"}
     THEN file' \in {EmptyFile, MalformedFile}
     ELSE UNCHANGED file
  /\ UNCHANGED <<run, docs, uid_cache, recipes, pos, out, calls, cache0, everAdded, aux>>

\* The job is started again: module globals are fresh, file and store stay
StartRun ==
  /\ pc \in Stopped
  /\ run < MaxRuns
  /\ run' = run + 1
  /\ pc' = "start"
  /\ uid_cache' = EmptyDict
  /\ recipes' = <<>>
  /\ pos' = 0
  /\ out' = <<>>
  /\ calls' = <<>>
  /\ cache0' = EmptyDict
  /\ UNCHANGED <<file, docs, everAdded, aux>>

Next ==
  \/ InitLoad
  \/ HydrateOk
  \/ HydrateFail
  \/ InitSaveOpen
  \/ InitSaveDump
  \/ Fetch
  \/ MainIf
  \/ RecordNoWrite
  \/ RecordWrite
  \/ CacheAdd
  \/ RecSaveOpen
  \/ RecSaveDump
  \/ Finish
  \/ Crash
  \/ StartRun

Spec == Init /\ [][Next]_vars

\* The job left to itself: nobody kills the process, and a process that can
\* take a step takes it (single-threaded, blocking calls that return).
NextRun ==
  \/ InitLoad
  \/ HydrateOk
  \/ HydrateFail
  \/ InitSaveOpen
  \/ InitSaveDump
  \/ Fetch
  \/ MainIf
  \/ RecordNoWrite
  \/ RecordWrite
  \/ CacheAdd
  \/ RecSaveOpen
  \/ RecSaveDump
  \/ Finish
  \/ StartRun

LiveSpec == Init /\ [][NextRun]_vars /\ WF_vars(NextRun)

TypeOK ==
  /\ pc \in Running \cup Stopped
  /\ run \in 1..MaxRuns
  /\ file.kind \in {"missing", "empty", "malformed", "object"}
  /\ docs \subseteq Keys
  /\ DOMAIN uid_cache \subseteq Keys
  /\ recipes \in Batches
  /\ pos \in 0..(MaxBatch + 1)

\* ===================================================== field extractors
\* The state of `Spec` is parked while an extractor is called on its own.
Parked ==
  /\ pc = "start" /\ run = 1 /\ file = NoFile /\ docs = {}
  /\ uid_cache = EmptyDict /\ recipes = <<>> /\ pos = 0 /\ out = <<>>
  /\ calls = <<>> /\ cache0 = EmptyDict /\ everAdded = {}

main == <<pc, run, file, docs, uid_cache, recipes, pos, out, calls, cache0, everAdded>>

\* ------------------------------------------------ extract_and_categorize
\* A summary is a sequence of pieces.  A piece is a run of decimal digits
\* (possibly none; ASCII "45" or the same number in non-ASCII digits, which
\* \d matches too) followed by a literal text.  BoldEnd is "</b>"; the "<b>"
\* that opens a fragment stands at the start of the text and right after
\* every "</b>", so the pieces behind the last "</b>" are not in bold.
Digits45 == <<4, 5>>
Literals == {" cents per serving", "g of protein", "g of fat", " calories"}
Piece(ds, a, t) == [digits |-> ds, ascii |-> a, rest |-> t]
BoldEnd  == Piece(<<>>, TRUE, "</b>")
Atoms ==
  {Piece(Digits45, a, t) : a \in BOOLEAN, t \in Literals}
    \cup {Piece(<<>>, TRUE, "$"), Piece(<<>>, TRUE, " calories")}
Summaries == SeqsUpTo(Atoms \cup {BoldEnd}, MaxText)

\* re.findall(r'<b>(.*?)</b>', text): the fragments, in text order
RECURSIVE re_findall(_, _)
re_findall(text, cur) ==
  IF text = <<>> THEN <<>>
  ELSE IF Head(text) = BoldEnd
       THEN <<cur>> \o re_findall(Tail(text), <<>>)
       ELSE re_findall(Tail(text), Append(cur, Head(text)))

\* the dict `categories`, in insertion order: name and the literal that
\* has to follow \d+
categories ==
  << [name |-> "Cost per serving", lit |-> " cents per serving"],
     [name |-> "Protein",          lit |-> "g of protein"],
     [name |-> "Fat",              lit |-> "g of fat"],
     [name |-> "Calories",         lit |-> " calories"] >>

\* re.search(pattern, tag) for the pattern \d+<lit>
re_search(lit, tag) ==
  \E i \in 1..Len(tag) : tag[i].digits # <<>> /\ tag[i].rest = lit

\* re.sub(r'[^0-9a-zA-Z\s]', '', tag): non-ASCII digits and "$" go, pieces
\* left without any character vanish
clean_piece(p) ==
  Piece(IF p.ascii THEN p.digits ELSE <<>>, TRUE, IF p.rest = "$" THEN "" ELSE p.rest)

RECURSIVE clean_data(_)
clean_data(tag) ==
  IF tag = <<>> THEN <<>>
  ELSE LET c == clean_piece(Head(tag))
       IN  IF c.digits = <<>> /\ c.rest = ""
           THEN clean_data(Tail(tag))
           ELSE <<c>> \o clean_data(Tail(tag))

\* d[k] = v
dict_put(d, k, v) == [x \in DOMAIN d \cup {k} |-> IF x = k THEN v ELSE d[x]]

\* lines 92-97 without the break
RECURSIVE scan_categories_nobreak(_, _, _)
scan_categories_nobreak(tag, j, data) ==
  IF j > Len(categories) THEN data
  ELSE IF re_search(categories[j].lit, tag)
       THEN scan_categories_nobreak(tag, j + 1,
                                    dict_put(data, categories[j].name, clean_data(tag)))
       ELSE scan_categories_nobreak(tag, j + 1, data)

\* lines 92-97: for category, pattern in categories.items(): ... break
RECURSIVE scan_categories(_, _, _)
scan_categories(tag, j, data) ==
  IF j > Len(categories) THEN data
  ELSE IF re_search(categories[j].lit, tag)
       THEN dict_put(data, categories[j].name, clean_data(tag))
       ELSE scan_categories(tag, j + 1, data)

\* lines 91-97: for tag in b_tags
RECURSIVE scan_tags(_, _)
scan_tags(b_tags, data) ==
  IF b_tags = <<>> THEN data
  ELSE scan_tags(Tail(b_tags), scan_categories(Head(b_tags), 1, data))

extract_and_categorize(text) == scan_tags(re_findall(text, <<>>), <<>>)

\* re.sub(r'\D', '', calories_str): the decimal digits that are left
RECURSIVE re_sub_nondigits(_)
re_sub_nondigits(str) ==
  IF str = <<>> THEN <<>>
  ELSE Head(str).digits \o re_sub_nondigits(Tail(str))

\* int(calories_clean): ValueError on the empty string
RECURSIVE int_of(_)
int_of(ds) == IF ds = <<>> THEN 0 ELSE 10 * int_of(SubSeq(ds, 1, Len(ds) - 1)) + ds[Len(ds)]

int(ds) == IF ds = <<>> THEN [raised |-> TRUE,  val |-> 0]
           ELSE             [raised |-> FALSE, val |-> int_of(ds)]

\* lines 119-129: caloriesInt
caloriesInt(nutritional_info) ==
  IF "Calories" \in DOMAIN nutritional_info
  THEN int(re_sub_nondigits(nutritional_info["Calories"]))
  ELSE [raised |-> FALSE, val |-> 0]

InitNutrition ==
  /\ Parked
  /\ procs = NoProcs
  /\ frame \in {[fn |-> "nutrition", arg |-> t, called |-> FALSE, ret |-> <<>>] :
                 t \in Summaries}

\* lines 116-129 of store_recipes on recipe['summary']
Nutrition ==
  /\ frame.fn = "nutrition"
  /\ ~frame.called
  /\ LET nutritional_info == extract_and_categorize(frame.arg)
     IN  frame' = [frame EXCEPT !.called = TRUE,
                                !.ret = [nutritional_info |-> nutritional_info,
                                         calories |-> caloriesInt(nutritional_info)]]
  /\ UNCHANGED <<main, procs>>

NextNutrition == Nutrition

SpecNutrition == InitNutrition /\ [][NextNutrition]_vars

\* ----------------------------------------------------- extract_equipment
\* analyzedInstructions is a list of instruction groups.  A group is a dict
\* with or without a 'steps' list, a step a dict with or without an
\* 'equipment' list, and every equipment item carries its 'name'.
MaxGroups == 2
MaxSteps  == 1
MaxEquip  == 1

EquipNames   == {"oven", "pan"}
EquipItems   == {[name |-> n] : n \in EquipNames}
StepDicts    == {[number |-> 1]} \cup
                {[number |-> 1, equipment |-> e] : e \in SeqsUpTo(EquipItems, MaxEquip)}
GroupDicts   == {[name |-> ""]} \cup
                {[name |-> "", steps |-> st] : st \in SeqsUpTo(StepDicts, MaxSteps)}
\* the lists of at most n instruction groups
Instructions(n) == SeqsUpTo(GroupDicts, n)

\* d[key]: KeyError when the key is missing
get_required(d, key, default) ==
  IF key \in DOMAIN d THEN [raised |-> FALSE, val |-> d[key]]
  ELSE [raised |-> TRUE, val |-> default]

\* d.get(key, default)
get(d, key, default) ==
  IF key \in DOMAIN d THEN [raised |-> FALSE, val |-> d[key]]
  ELSE [raised |-> FALSE, val |-> default]

\* lines 72-73: the equipment of one step is added to the set
add_step(equipment_set, step) ==
  LET eq == get(step, "equipment", <<>>)
  IN  IF eq.raised THEN [raised |-> TRUE, val |-> equipment_set]
      ELSE [raised |-> FALSE,
            val |-> equipment_set \cup {eq.val[k].name : k \in 1..Len(eq.val)}]

RECURSIVE add_steps(_, _, _)
add_steps(equipment_set, steps, j) ==
  IF j > Len(steps) THEN [raised |-> FALSE, val |-> equipment_set]
  ELSE LET r == add_step(equipment_set, steps[j])
       IN  IF r.raised THEN r ELSE add_steps(r.val, steps, j + 1)

\* lines 71-73: for step in instruction.get('steps', [])
add_instruction(equipment_set, instruction) ==
  LET st == get(instruction, "steps", <<>>)
  IN  IF st.raised THEN [raised |-> TRUE, val |-> equipment_set]
      ELSE add_steps(equipment_set, st.val, 1)

\* list(a_set): the elements, each once, in an order the hashing decides
list(a_set) ==
  {q \in [1..Cardinality(a_set) -> a_set] : \A x \in a_set : \E i \in DOMAIN q : q[i] = x}

InitEquipment ==
  /\ Parked
  /\ procs = NoProcs
  /\ frame \in {[fn |-> "equipment", arg |-> a, called |-> FALSE,
                 ret |-> [i |-> 1, equipment_set |-> {}, raised |-> FALSE, val |-> <<>>]] :
                 a \in Instructions(MaxGroups)}

\* lines 70-73: one turn of `for instruction in analyzed_instructions`
ExtractEquipmentLoop ==
  /\ frame.fn = "equipment"
  /\ ~frame.called
  /\ frame.ret.i <= Len(frame.arg)
  /\ LET r == add_instruction(frame.ret.equipment_set, frame.arg[frame.ret.i])
     IN  IF r.raised
         THEN frame' = [frame EXCEPT !.called = TRUE, !.ret.raised = TRUE]
         ELSE frame' = [frame EXCEPT !.ret.i = @ + 1, !.ret.equipment_set = r.val]
  /\ UNCHANGED <<main, procs>>

\* line 74: return list(equipment_set)
ExtractEquipmentReturn ==
  /\ frame.fn = "equipment"
  /\ ~frame.called
  /\ frame.ret.i > Len(frame.arg)
  /\ \E l \in list(frame.ret.equipment_set) :
       frame' = [frame EXCEPT !.called = TRUE, !.ret.val = l]
  /\ UNCHANGED <<main, procs>>

NextEquipment == ExtractEquipmentLoop \/ ExtractEquipmentReturn

SpecEquipment == InitEquipment /\ [][NextEquipment]_vars

\* ------------------------------------------------------- ingredients_map
\* recipe['extendedIngredients'] is a list of dicts with 'name', 'amount'
\* and 'unit'.
MaxIngr == 2

IngrNames   == {"salt", "oil"}
IngrAmounts == {1, 2}
IngrUnits   == {"g", "cup"}
Ingredients == [name : IngrNames, amount : IngrAmounts, unit : IngrUnits]
IngredientLists == SeqsUpTo(Ingredients, MaxIngr)

\* line 109: f"{ingredient['amount']} {ingredient['unit']}"
amount_unit(ingredient) == ToString(ingredient.amount) \o " " \o ingredient.unit

\* a map that keeps the value a name got first
RECURSIVE ingredients_map_setdefault(_, _, _)
ingredients_map_setdefault(extendedIngredients, i, d) ==
  IF i > Len(extendedIngredients) THEN d
  ELSE LET ingredient == extendedIngredients[i]
       IN  ingredients_map_setdefault(extendedIngredients, i + 1,
             IF ingredient.name \in DOMAIN d THEN d
             ELSE dict_put(d, ingredient.name, amount_unit(ingredient)))

\* lines 108-111: the dict comprehension, evaluated in list order from i on
RECURSIVE ingredients_map(_, _, _)
ingredients_map(extendedIngredients, i, d) ==
  IF i > Len(extendedIngredients) THEN d
  ELSE LET ingredient == extendedIngredients[i]
       IN  ingredients_map(extendedIngredients, i + 1,
                           dict_put(d, ingredient.name, amount_unit(ingredient)))

InitIngredients ==
  /\ Parked
  /\ procs = NoProcs
  /\ frame \in {[fn |-> "ingredients", arg |-> a, called |-> FALSE, ret |-> <<>>] :
                 a \in IngredientLists}

\* lines 108-111 of store_recipes on recipe['extendedIngredients']
BuildIngredients ==
  /\ frame.fn = "ingredients"
  /\ ~frame.called
  /\ frame' = [frame EXCEPT !.called = TRUE,
                            !.ret = ingredients_map(frame.arg, 1, <<>>)]
  /\ UNCHANGED <<main, procs>>

NextIngredients == BuildIngredients

SpecIngredients == InitIngredients /\ [][NextIngredients]_vars

\* ================================================ two jobs, one cache file
\* Two processes run __main__ side by side on the same UID_CACHE_FILE and
\* the same collection.  Each has its own global uid_cache and fetches one
\* well-formed record; no call fails.  save_uid_cache (open, dump, close) is
\* one step here.
Procs == {1, 2}

\* a save that reads the file first and writes the union
save_uid_cache_merge(cache, f) ==
  LET old == load_uid_cache(f).val
  IN  json_dump([k \in DOMAIN cache \cup DOMAIN old |-> TRUE])

\* save_uid_cache(cache): the file becomes the dump of this process's dict,
\* whatever it held
save_uid_cache(cache, f) == json_dump(cache)

InitTwo ==
  /\ pc = "start" /\ run = 1 /\ uid_cache = EmptyDict /\ recipes = <<>>
  /\ pos = 0 /\ out = <<>> /\ calls = <<>> /\ cache0 = EmptyDict /\ everAdded = {}
  /\ frame = NoFrame
  /\ file = NoFile
  /\ docs \in SUBSET Keys
  /\ procs = [p \in Procs |-> [pc |-> "start", uid_cache |-> EmptyDict,
                               recipe_id |-> NoId, added |-> FALSE]]

own == <<pc, run, uid_cache, recipes, pos, out, calls, cache0, everAdded, frame>>

\* lines 41-42
TwoInitLoad(p) ==
  /\ procs[p].pc = "start"
  /\ LET c == load_uid_cache(file).val
     IN  procs' = [procs EXCEPT ![p].uid_cache = c,
                                ![p].pc = IF DOMAIN c = {} THEN "hydrate" ELSE "fetch"]
  /\ UNCHANGED <<file, docs, own>>

\* lines 44-47
TwoHydrate(p) ==
  /\ procs[p].pc = "hydrate"
  /\ procs' = [procs EXCEPT ![p].uid_cache = hydrate(procs[p].uid_cache, docs),
                            ![p].pc = "init_save"]
  /\ UNCHANGED <<file, docs, own>>

\* line 48
TwoInitSave(p) ==
  /\ procs[p].pc = "init_save"
  /\ file' = save_uid_cache(procs[p].uid_cache, file)
  /\ procs' = [procs EXCEPT ![p].pc = "fetch"]
  /\ UNCHANGED <<docs, own>>

\* line 162, one record
TwoFetch(p) ==
  /\ procs[p].pc = "fetch"
  /\ \E id \in Ids : procs' = [procs EXCEPT ![p].recipe_id = id, ![p].pc = "record"]
  /\ UNCHANGED <<file, docs, own>>

\* lines 106-107, 155-156: the record is a duplicate for this process
TwoDuplicate(p) ==
  /\ procs[p].pc = "record"
  /\ dict_get(procs[p].uid_cache, Str(procs[p].recipe_id))
  /\ procs' = [procs EXCEPT ![p].pc = "done"]
  /\ UNCHANGED <<file, docs, own>>

\* lines 107-151: doc_ref.set
TwoWrite(p) ==
  /\ procs[p].pc = "record"
  /\ ~dict_get(procs[p].uid_cache, Str(procs[p].recipe_id))
  /\ docs' = docs \cup {Str(procs[p].recipe_id)}
  /\ procs' = [procs EXCEPT ![p].pc = "cache_add"]
  /\ UNCHANGED <<file, own>>

\* line 153
TwoCacheAdd(p) ==
  /\ procs[p].pc = "cache_add"
  /\ procs' = [procs EXCEPT
                 ![p].uid_cache = dict_set(procs[p].uid_cache, Str(procs[p].recipe_id)),
                 ![p].pc = "rec_save"]
  /\ UNCHANGED <<file, docs, own>>

\* line 154
TwoRecSave(p) ==
  /\ procs[p].pc = "rec_save"
  /\ file' = save_uid_cache(procs[p].uid_cache, file)
  /\ procs' = [procs EXCEPT ![p].pc = "done", ![p].added = TRUE]
  /\ UNCHANGED <<docs, own>>

NextTwo ==
  \/ \E p \in Procs : TwoInitLoad(p)
  \/ \E p \in Procs : TwoHydrate(p)
  \/ \E p \in Procs : TwoInitSave(p)
  \/ \E p \in Procs : TwoFetch(p)
  \/ \E p \in Procs : TwoDuplicate(p)
  \/ \E p \in Procs : TwoWrite(p)
  \/ \E p \in Procs : TwoCacheAdd(p)
  \/ \E p \in Procs : TwoRecSave(p)

SpecTwo == InitTwo /\ [][NextTwo]_vars

\* ------------------------------------------------------------ properties
FileKeys(f)  == {p[1] : p \in f.pairs}
Present(k)   == k \in DOMAIN uid_cache /\ uid_cache[k]
Cur          == recipes[pos]
AtRecord     == pc = "record" /\ pos <= Len(recipes)
Sets         == SelectSeq(calls, LAMBDA e : e.op = "set")
Adds         == SelectSeq(calls, LAMBDA e : e.op = "add")
Listed       == \E i \in 1..Len(calls) : calls[i].op = "list"
HasSet(k, p) == \E i \in 1..Len(calls) : calls[i] = [op |-> "set", key |-> k, at |-> p]
Printed(m)   == \E i \in 1..Len(out) : out[i] = m
FetchFailed  == \E i \in 1..Len(calls) :
                  calls[i].op = "get" /\ calls[i].key \in {"network_error", "http_error"}
BatchKeys    == {Str(recipes[i].id) : i \in {j \in 1..Len(recipes) : recipes[j].id # NoId}}

\* C1: within store_recipes a key enters the dict or the cache file only in
\* a step that follows the completed doc_ref.set of the same record; when
\* the set raised (no set is recorded for the record) the key enters neither.
C1_AddOnlyAfterWrite ==
  [][ (pc \in InStore /\ pos <= Len(recipes)) =>
        /\ \A k \in Keys :
             (k \notin DOMAIN uid_cache /\ k \in DOMAIN uid_cache')
               => (HasSet(k, pos) /\ k \in docs /\ k = Str(Cur.id))
        /\ \A k \in Keys :
             (file' # file /\ k \in FileKeys(file') /\ k \notin DOMAIN cache0)
               => (\E p \in 1..pos : HasSet(k, p)) /\ k \in docs
     ]_vars

\* C1 witness: the key of the record being processed has just been added to
\* the dict and the file, after its document was written
C1_Witness ==
  /\ pc = "record" /\ pos > 1
  /\ LET k == Str(recipes[pos - 1].id)
     IN  /\ recipes[pos - 1].id # NoId
         /\ k \notin DOMAIN cache0
         /\ HasSet(k, pos - 1)
         /\ k \in DOMAIN uid_cache
         /\ k \in FileKeys(file)

\* C2: a record whose key is already in the cache is stepped over without a
\* document write and without a change of the dict or of the cache file.
C2_DuplicateFrame ==
  [][ (AtRecord /\ Cur.id # NoId /\ Present(Str(Cur.id))) =>
        /\ docs' = docs
        /\ calls' = calls
        /\ uid_cache' = uid_cache
        /\ file' = file
     ]_vars

\* C2 witness: a duplicate has been reported and nothing was written so far
C2_Witness ==
  /\ pc = "record" /\ pos = 2
  /\ out = <<"duplicate">>
  /\ Sets = <<>> /\ Adds = <<>>
  /\ Present(Str(recipes[1].id))

\* C3: a failing record never ends the batch: once store_recipes has been
\* entered, the run ends only after the loop went past the last record.
C3_BatchNeverAborted ==
  (pc \in {"done", "abort_store"} /\ recipes # <<>>) => pos = Len(recipes) + 1

\* C4: when a batch is processed without any failure, the document writes
\* and the cache adds are the same keys in the same order, each key once,
\* each add directly after its write, and they are exactly the batch keys
\* that were not cached when processing started.
C4_OneWriteOneAdd ==
  (pc = "done" /\ recipes # <<>> /\ ~Printed("error")) =>
     /\ Len(Sets) = Cardinality(BatchKeys \ DOMAIN cache0)
     /\ Len(Adds) = Len(Sets)
     /\ {Sets[i].key : i \in 1..Len(Sets)} = BatchKeys \ DOMAIN cache0
     /\ \A i \in 1..Len(Adds) : Adds[i].key = Sets[i].key /\ Adds[i].at = Sets[i].at
     /\ \A i \in 1..Len(calls) :
          calls[i].op = "add" => (i > 1 /\ calls[i - 1].op = "set"
                                        /\ calls[i - 1].key = calls[i].key)

\* C4 witness: a batch that holds the same uncached id twice was processed
\* without failure: one write, one add, one duplicate
C4_Witness ==
  /\ pc = "done" /\ Len(recipes) = 2 /\ ~Printed("error")
  /\ recipes[1].id = recipes[2].id
  /\ Len(Sets) = 1 /\ Len(Adds) = 1
  /\ out = <<"stored", "duplicate", "success">>

\* C5: once initialize_uid_cache has returned, a key present in the dict
\* stays present for the rest of the run.
C5_CacheMonotone ==
  [][ (pc \in PostInit /\ pc' # "start") =>
        \A k \in Keys : Present(k) => (k \in DOMAIN uid_cache' /\ uid_cache'[k])
     ]_vars

\* C5 witness: a key was added to a dict that already held another key
C5_Witness ==
  /\ pc = "rec_save"
  /\ DOMAIN cache0 # {}
  /\ DOMAIN uid_cache # DOMAIN cache0

\* C6: whatever the cache file holds, at every instant, is a set of keys of
\* documents that exist in the store.
C6_FileWithinStore ==
  file.kind = "object" => FileKeys(file) \subseteq docs

\* C6 witness: the process was killed after a record of this run was written
\* and its key saved to the file
C6_Witness ==
  /\ pc = "crashed"
  /\ \E i \in 1..Len(calls) : calls[i].op = "set" /\ calls[i].key \in FileKeys(file)

\* C6 witness of the crash residue: killed between write and cache update
C6_Residue ==
  /\ pc = "crashed"
  /\ \E i \in 1..Len(calls) :
       calls[i].op = "set" /\ file.kind = "object" /\ calls[i].key \notin FileKeys(file)

\* C7: initialize_uid_cache goes on to hydrate exactly when the loaded dict
\* is empty (file missing, empty, malformed or "{}"); when hydration is
\* carried through, dict and file hold exactly the listed document ids; when
\* it is not, the store was not listed and the file is as it was.
C7_Hydration ==
  [][ /\ (pc = "start" /\ pc' # "crashed") =>
           /\ (pc' = "hydrate") <=>
                (\/ file.kind \in {"missing", "empty", "malformed"}
                 \/ (file.kind = "object" /\ file.pairs = {}))
           /\ (pc' = "hydrate") <=> (DOMAIN uid_cache' = {})
      /\ (pc = "start" /\ pc' = "fetch") =>
           /\ file' = file
           /\ ~Listed'
      /\ (pc = "init_dump" /\ pc' = "fetch") =>
           /\ Listed
           /\ DOMAIN uid_cache' = docs
           /\ \A k \in docs : uid_cache'[k] = TRUE
           /\ file'.kind = "object"
           /\ file'.pairs = {<<k, TRUE>> : k \in docs}
     ]_vars

\* C7 witness: a later run found an empty or malformed file and hydrated
\* the ids of a non-empty store
C7_Witness ==
  /\ pc = "fetch" /\ run > 1
  /\ Listed
  /\ docs # {}
  /\ FileKeys(file) = docs

\* C7 witness of the other branch: a non-empty file was loaded, no listing
C7_WitnessLoaded ==
  /\ pc = "fetch" /\ run > 1
  /\ ~Listed
  /\ DOMAIN uid_cache # {}

\* C8: on a missing, empty or malformed file load_uid_cache returns the
\* empty dict, raises nothing and leaves the file as it is.
C8_LoadNeverRaises ==
  [][ (pc = "start" /\ pc' # "crashed"
        /\ file.kind \in {"missing", "empty", "malformed"}) =>
        /\ pc' # "abort_init"
        /\ DOMAIN uid_cache' = {}
        /\ file' = file
     ]_vars

\* C8 witness: the load has returned on a malformed file
C8_Witness ==
  /\ pc = "hydrate"
  /\ file.kind = "malformed"

\* C8 witness: the load has returned on an empty file
C8_WitnessEmpty ==
  /\ pc = "hydrate"
  /\ file.kind = "empty"

\* C9: a key whose add completed (dict and file) is reported by
\* recipe_exists for the rest of that run and, once initialize_uid_cache
\* has returned, in every later run.
C9_AddThenContains ==
  pc \in PostInit =>
    \A id \in Ids : Str(id) \in everAdded => recipe_exists(id) = TRUE

\* C9 witness: a later run loaded the file and finds the key added earlier
C9_Witness ==
  /\ run > 1
  /\ AtRecord
  /\ ~Listed
  /\ Sets = <<>>
  /\ Cur.id # NoId
  /\ Str(Cur.id) \in everAdded
  /\ recipe_exists(Cur.id)

\* C10: a failed fetch is reported and yields the empty list without
\* raising; on an empty list the run goes straight to its end, prints that
\* there is nothing to store, and writes no document and adds no key.
C10_EmptyBatch ==
  [][ /\ (pc = "fetch" /\ FetchFailed') =>
           (recipes' = <<>> /\ pc' = "main_if" /\ Printed("fetch_error")')
      /\ (pc = "main_if" /\ recipes = <<>> /\ pc' # "crashed") =>
           /\ pc' = "done"
           /\ out' = Append(out, "no_recipes")
           /\ Sets' = <<>> /\ Adds' = <<>>
           /\ docs' = docs /\ uid_cache' = uid_cache /\ file' = file
      /\ (pc \in InStore)' => recipes' # <<>>
     ]_vars

\* C10 witness: the run ended after a failed fetch
C10_Witness ==
  /\ pc = "done"
  /\ out = <<"fetch_error", "no_recipes">>
  /\ FetchFailed
  /\ recipes = <<>>

\* C10 witness: the run ended after a successful fetch of no record
C10_WitnessEmptyOk ==
  /\ pc = "done"
  /\ out = <<"no_recipes">>

SaveRaised   == \E i \in 1..Len(calls) : calls[i].op = "save_raised"
\* between two statements of __main__ or two records of the loop
BetweenSteps == pc \in {"fetch", "main_if", "record", "done"}

NutritionDone == frame.fn = "nutrition" /\ frame.called
b_tags        == re_findall(frame.arg, <<>>)
HasDigits(str) == \E i \in 1..Len(str) : str[i].digits # <<>>

\* index in `categories` of the first pattern a fragment matches, else 0
FirstMatch(tag) ==
  LET hits == {j \in 1..Len(categories) : re_search(categories[j].lit, tag)}
  IN  IF hits = {} THEN 0 ELSE CHOOSE j \in hits : \A h \in hits : j <= h

\* C12: the calorie value is 0 without a Calories entry, the number written
\* by the digits of the Calories string when it has digits, and 0 - with no
\* error raised - when the Calories string has no digit.
C12_CaloriesNeverRaise ==
  NutritionDone =>
    LET info == frame.ret.nutritional_info
        c    == frame.ret.calories
    IN  /\ ~c.raised
        /\ ("Calories" \notin DOMAIN info) => c.val = 0
        /\ ("Calories" \in DOMAIN info /\ HasDigits(info["Calories"]))
              => c.val = int_of(re_sub_nondigits(info["Calories"]))
        /\ ("Calories" \in DOMAIN info /\ ~HasDigits(info["Calories"])) => c.val = 0

\* C13: every category is bound to the cleaned text of the last fragment
\* whose first matching pattern is that category, and is unbound when there
\* is no such fragment.
C13_LastFragmentWins ==
  NutritionDone =>
    \A j \in 1..Len(categories) :
      LET info == frame.ret.nutritional_info
          idx  == {i \in 1..Len(b_tags) : FirstMatch(b_tags[i]) = j}
          last == CHOOSE i \in idx : \A h \in idx : h <= i
      IN  IF idx = {}
          THEN categories[j].name \notin DOMAIN info
          ELSE /\ categories[j].name \in DOMAIN info
               /\ info[categories[j].name] = clean_data(b_tags[last])

\* C13 witness: two fragments of one category with different cleaned texts,
\* the later one is the value
C13_Witness ==
  /\ NutritionDone
  /\ Len(b_tags) = 2
  /\ FirstMatch(b_tags[1]) = 4 /\ FirstMatch(b_tags[2]) = 4
  /\ clean_data(b_tags[1]) # clean_data(b_tags[2])
  /\ frame.ret.nutritional_info["Calories"] = clean_data(b_tags[2])

\* C13 witness: one fragment matches two patterns and fills the first only
C13_WitnessFirstPattern ==
  /\ NutritionDone
  /\ Len(b_tags) = 1
  /\ re_search(" calories", b_tags[1]) /\ re_search("g of protein", b_tags[1])
  /\ DOMAIN frame.ret.nutritional_info = {"Protein"}

\* ------------------------------------------------------ run as a whole
FetchedOk == \E i \in 1..Len(calls) : calls[i].op = "get" /\ calls[i].key = "ok"

\* C14: nothing is processed or written before initialize_uid_cache and the
\* fetch are over, the records are taken one at a time in batch order, and
\* a run that has fetched its batch (empty or not) reaches done.
C14_PhaseOrder ==
  /\ []((pos > 0 \/ Sets # <<>> \/ Adds # <<>>) => (pc \in PostInit /\ FetchedOk))
  /\ [][pos' = pos \/ pos' = pos + 1 \/ pc' = "start"]_vars
  /\ \A n \in 1..MaxRuns :
       (run = n /\ pc = "main_if") ~> (run = n /\ pc = "done")

\* ------------------------------------------------------ two jobs at once
BothDone == \A p \in Procs : procs[p].pc = "done"

\* C15: the last full rewrite wins - when both jobs are done the file is
\* the dump of the dict of one of them (never the union of the two), so an
\* insertion of the other job can be missing from it.
C15_LastWriterWins ==
  BothDone =>
    /\ file.kind = "object"
    /\ \E p \in Procs : json_load(file) = procs[p].uid_cache

\* C15 witness: both jobs are done, one of them stored a document and added
\* its key, and the file does not hold that key
C15_Witness ==
  /\ BothDone
  /\ \E p \in Procs :
       /\ procs[p].added
       /\ Str(procs[p].recipe_id) \in docs
       /\ Str(procs[p].recipe_id) \in DOMAIN procs[p].uid_cache
       /\ Str(procs[p].recipe_id) \notin FileKeys(file)

\* ------------------------------------------------------------ rewrites
\* the step is the doc_ref.set of the record at pos
WritesDoc == pc = "record" /\ pc' = "cache_add"

\* C16 as stated: store_recipes never writes to an identifier that already
\* has a document in the store.
C16_NeverOverwrites ==
  [][WritesDoc => Str(Cur.id) \notin docs]_vars

\* C16 amended: store_recipes never writes to an identifier whose cache add
\* (dict and file) has completed in this or an earlier run, nor to one that
\* is in its dict; an existing document is written again only when its key
\* never reached the cache file.
C16_NoRewriteOnceCached ==
  [][WritesDoc =>
       /\ Str(Cur.id) \notin everAdded
       /\ Str(Cur.id) \notin DOMAIN uid_cache
       /\ (file.kind = "object" => Str(Cur.id) \notin FileKeys(file))
    ]_vars

\* C16 witness: in a later run a record whose add completed earlier is met,
\* reported as duplicate and not written
C16_Witness ==
  /\ run > 1
  /\ pc = "record" /\ pos = 2
  /\ out = <<"duplicate">>
  /\ Sets = <<>>
  /\ Str(recipes[1].id) \in everAdded
  /\ Str(recipes[1].id) \in docs

\* ---------------------------------------------------- malformed response
BadShape == \E i \in 1..Len(calls) : calls[i].op = "get" /\ calls[i].key = "bad_shape"

\* C17: a response body without the 'recipes' key is not turned into an
\* empty batch: the KeyError leaves fetch_recipes and ends the run, nothing
\* is printed, no record is processed, no document written, no key added.
C17_BadShapeAborts ==
  [][ /\ (pc = "fetch" /\ BadShape') =>
           /\ pc' = "abort_fetch"
           /\ out' = out
           /\ docs' = docs /\ uid_cache' = uid_cache /\ file' = file
      /\ (pc = "abort_fetch") =>
           (pc' = "start" /\ pos = 0 /\ Sets = <<>> /\ Adds = <<>>
              /\ ~Printed("no_recipes") /\ ~Printed("fetch_error"))
    ]_vars

\* C17 witness: a run has ended in fetch_recipes on a malformed body
C17_Witness ==
  /\ pc = "abort_fetch"
  /\ BadShape
  /\ out = <<>>
  /\ pos = 0

\* ------------------------------------------------- a record that fails
\* the step of store_recipes in which the record at pos raises before or in
\* doc_ref.set: the handler prints the error, or raises itself
RaisesBeforeWrite ==
  /\ pc = "record"
  /\ pos <= Len(recipes)
  /\ (pc' = "abort_store" \/ out' = Append(out, "error"))

\* C20: a record that raises before its document write completes (missing
\* field, calorie parse failure, the write failing) changes neither the
\* document store nor the dict nor the cache file, and an identifier that
\* was not cached is still not cached after the step.
C20_FailedRecordLeavesNoTrace ==
  [][RaisesBeforeWrite =>
       /\ docs' = docs
       /\ uid_cache' = uid_cache
       /\ file' = file
       /\ Sets' = Sets /\ Adds' = Adds
       /\ (Cur.id # NoId /\ ~recipe_exists(Cur.id)) =>
             Str(Cur.id) \notin DOMAIN uid_cache'
    ]_vars

\* C20 witness: the identifier of a record that failed is seen again in the
\* same batch and is stored then
C20_Witness ==
  /\ pc = "cache_add" /\ pos = 2
  /\ out = <<"error", "stored">>
  /\ recipes[1].id = recipes[2].id
  /\ Sets = <<[op |-> "set", key |-> Str(recipes[2].id), at |-> 2]>>

\* ------------------------------------------------------ equipment names
EquipmentDone == frame.fn = "equipment" /\ frame.called

\* the names some equipment item of some step of some group carries
Mentioned(analyzed_instructions) ==
  {n \in EquipNames :
     \E g \in 1..Len(analyzed_instructions) :
       LET instruction == analyzed_instructions[g]
       IN  /\ "steps" \in DOMAIN instruction
           /\ \E j \in 1..Len(instruction.steps) :
                LET step == instruction.steps[j]
                IN  /\ "equipment" \in DOMAIN step
                    /\ \E k \in 1..Len(step.equipment) : step.equipment[k].name = n}

\* C18: extract_equipment raises nothing on groups without steps and steps
\* without equipment, and returns a list that holds exactly the names
\* mentioned in some step of some group, each of them once.
C18_DistinctEquipment ==
  EquipmentDone =>
    /\ ~frame.ret.raised
    /\ {frame.ret.val[i] : i \in 1..Len(frame.ret.val)} = Mentioned(frame.arg)
    /\ Len(frame.ret.val) = Cardinality(Mentioned(frame.arg))

\* C18 witness: two groups mention the same name, the list holds it once
C18_Witness ==
  /\ EquipmentDone
  /\ Len(frame.arg) = 2
  /\ frame.arg[1] = [name |-> "", steps |-> <<[number |-> 1, equipment |-> <<[name |-> "oven"]>>]>>]
  /\ frame.arg[2] = frame.arg[1]
  /\ frame.ret.val = <<"oven">>

\* C18 witness: a group without steps and a step without equipment give []
C18_WitnessNothing ==
  /\ EquipmentDone
  /\ frame.arg = <<[name |-> ""], [name |-> "", steps |-> <<[number |-> 1]>>]>>
  /\ ~frame.ret.raised
  /\ frame.ret.val = <<>>

\* ------------------------------------------------------ ingredients map
IngredientsDone == frame.fn = "ingredients" /\ frame.called

\* the position of the last ingredient of the list that carries name n
LastOf(xs, n) ==
  CHOOSE i \in 1..Len(xs) :
    /\ xs[i].name = n
    /\ \A j \in (i + 1)..Len(xs) : xs[j].name # n

\* C19: the ingredients map has one entry per distinct ingredient name of
\* the list, and the value of a name is "amount unit" of the last ingredient
\* in list order that carries the name.
C19_LastIngredientWins ==
  IngredientsDone =>
    LET xs == frame.arg
        ingredients == frame.ret
    IN  /\ DOMAIN ingredients = {xs[i].name : i \in 1..Len(xs)}
        /\ \A n \in DOMAIN ingredients :
             LET last == xs[LastOf(xs, n)]
             IN  ingredients[n] = ToString(last.amount) \o " " \o last.unit

\* C19 witness: salt is listed twice with different amounts and units
C19_Witness ==
  /\ IngredientsDone
  /\ frame.arg = <<[name |-> "salt", amount |-> 1, unit |-> "g"],
                   [name |-> "salt", amount |-> 2, unit |-> "cup"]>>
  /\ DOMAIN frame.ret = {"salt"}
  /\ frame.ret["salt"] = "2 cup"
====
